---- MODULE Spec2Model ----
(***************************************************************************)
(* A model of the myfs filesystem driver (src/myfs.c): the VFS operations  *)
(* myfs_mount / myfs_unmount / myfs_root / myfs_statfs / myfs_vget and the *)
(* vnode operations of myfs_vops, as the host's VFS layer calls them on    *)
(* one mount point and a small set of vnodes.                              *)
(*                                                                         *)
(* Memory is modelled explicitly: every malloc'ed object (a struct         *)
(* myfs_mount, a struct myfs_node) has an allocation state and a count of  *)
(* the free() calls made on it, so that leaks, double frees and            *)
(* dereferences of absent objects are visible in the state.                *)
(***************************************************************************)
EXTENDS Integers, FiniteSets, Sequences, TLC

\* ----------------------------------------------------------------- bounds
NumVnodes == 2      \* vnodes the host presents to the driver
MaxMounts == 2      \* struct myfs_mount allocations over one run
MaxOpens  == 1      \* open handles the host holds on one vnode

\* -------------------------------------------------------------- constants
MYFS_MAGIC == 1297696339    \* 0x4D594653, "MYFS"

NULL == 0

Vnodes   == 1 .. NumVnodes
CtxAddrs == 1 .. MaxMounts
Inos     == 1 .. NumVnodes
WaitModes == {"MNT_WAIT", "MNT_NOWAIT"}

VARIABLES
    mnt_data,   \* mp->mnt_data: NULL or the address of a struct myfs_mount
    mnt_stat,   \* mp->mnt_stat, the statistics the mount point carries
    mnt_flag,   \* mp->mnt_flag, as a set of flag names
    ctxs,       \* the struct myfs_mount allocations, by address
    nodes,      \* the struct myfs_node allocations, by address
    v_data,     \* vp->v_data of each vnode: NULL or the address of a node
    handles,    \* host side: open handles on each vnode (open minus close)
    sbp,        \* the struct statfs the last myfs_statfs call filled in
    ret,        \* the value the last call returned
    lastOp,     \* the last call and its arguments
    repeated,   \* whether the last call repeats the call before it
    fault       \* "none", or the memory fault that stopped the kernel

vars == <<mnt_data, mnt_stat, mnt_flag, ctxs, nodes, v_data, handles, sbp,
          ret, lastOp, repeated, fault>>

\* A call: its name, a numeric argument (a vnode or an inode number, 0 when
\* there is none) and a symbolic one ("" when there is none).
Call(op, n, arg) == [op |-> op, n |-> n, arg |-> arg]

NoCall == Call("none", 0, "")

\* The superblock of a struct myfs_mount that malloc(M_ZERO) returned.
ZeroSb == [magic |-> 0, total_blocks |-> 0, free_blocks |-> 0]

\* A superblock initialised with a free count above the total.
SbInitNonzeroFree == [magic |-> MYFS_MAGIC, total_blocks |-> 0, free_blocks |-> 1]

\* The superblock as myfs_mount initialises it.
SbInit == [magic |-> MYFS_MAGIC, total_blocks |-> 0, free_blocks |-> 0]

\* An address no allocation uses yet.
Unalloc == [state |-> "unalloc", frees |-> 0, mp |-> "", sb |-> ZeroSb]

\* The struct myfs_node a vnode of this filesystem carries in v_data: the
\* node of vnode v is the one of inode number v.
NodeOf(v) == [state |-> "allocated", frees |-> 0, ino |-> v, nlink |-> 1,
              size |-> 0, mtime |-> 0]

\* free(p, M_TEMP) on the allocation table h: the object is released and the
\* call counted.
Free(h, p) == [h EXCEPT ![p].state = "freed", ![p].frees = @ + 1]

\* free() of an object that is not allocated is a double free.
FreeFault(h, p) == IF h[p].state = "allocated" THEN "none" ELSE "double_free"

\* Every call records itself; a call that equals the one before is a repeat.
Record(c) == /\ lastOp' = c
             /\ repeated' = (lastOp = c)

Init ==
    /\ mnt_data = NULL
    /\ mnt_stat = [f_iosize |-> "unset", f_blocks |-> 0, f_bfree |-> 0,
                   f_bavail |-> 0, f_namemax |-> "unset", f_fsid |-> "unset"]
    /\ mnt_flag = {}
    /\ ctxs = [a \in CtxAddrs |-> Unalloc]
    /\ v_data = [v \in Vnodes |-> v]
    /\ nodes = [v \in Vnodes |-> NodeOf(v)]
    /\ handles = [v \in Vnodes |-> 0]
    /\ sbp = [filled |-> FALSE, f_blocks |-> 0, f_bfree |-> 0, f_bavail |-> 0,
              f_files |-> 0, f_ffree |-> 0, f_bsize |-> "unset",
              f_iosize |-> "unset", f_namemax |-> "unset"]
    /\ ret = "OK"
    /\ lastOp = NoCall
    /\ repeated = FALSE
    /\ fault = "none"

\* ------------------------------------------------------------ VFS operations

\* The address malloc returns for a new struct myfs_mount.
NewCtx == CHOOSE a \in CtxAddrs :
              /\ ctxs[a].state = "unalloc"
              /\ \A b \in CtxAddrs : ctxs[b].state = "unalloc" => a <= b

\* myfs_mount as it would be with a failure detected after the context was
\* published: the error is returned with the allocation still in place.
MountLeakOnError(mallocOk) ==
    /\ fault = "none"
    /\ \E a \in CtxAddrs : ctxs[a].state = "unalloc"
    /\ Record(Call("mount", 0, ""))
    /\ ctxs' = [ctxs EXCEPT ![NewCtx] =
                    [state |-> "allocated", frees |-> 0, mp |-> "mp", sb |-> SbInit]]
    /\ mnt_data' = NewCtx
    /\ ret' = IF mallocOk THEN "OK" ELSE "ENOMEM"
    /\ IF mallocOk
         THEN /\ mnt_stat' = [f_iosize |-> "PAGE_SIZE",
                              f_blocks |-> SbInit.total_blocks,
                              f_bfree |-> SbInit.free_blocks,
                              f_bavail |-> SbInit.free_blocks,
                              f_namemax |-> "NAME_MAX", f_fsid |-> "new"]
              /\ mnt_flag' = mnt_flag \cup {"MNT_LOCAL"}
         ELSE UNCHANGED <<mnt_stat, mnt_flag>>
    /\ UNCHANGED <<nodes, v_data, handles, sbp, fault>>

\* myfs_mount: allocate the context; on a failed allocation return ENOMEM
\* with nothing touched; otherwise publish it in mnt_data, initialise the
\* superblock, set the mount point's statistics and flags, return 0.
Mount(mallocOk) ==
    /\ fault = "none"
    /\ \E a \in CtxAddrs : ctxs[a].state = "unalloc"
    /\ Record(Call("mount", 0, ""))
    /\ IF ~mallocOk
         THEN /\ ret' = "ENOMEM"
              /\ UNCHANGED <<mnt_data, mnt_stat, mnt_flag, ctxs>>
         ELSE LET mmp == NewCtx
                  sb == SbInit
              IN /\ ctxs' = [ctxs EXCEPT ![mmp] =
                                [state |-> "allocated", frees |-> 0,
                                 mp |-> "mp", sb |-> sb]]
                 /\ mnt_data' = mmp
                 /\ mnt_stat' = [f_iosize |-> "PAGE_SIZE",
                                 f_blocks |-> sb.total_blocks,
                                 f_bfree |-> sb.free_blocks,
                                 f_bavail |-> sb.free_blocks,
                                 f_namemax |-> "NAME_MAX", f_fsid |-> "new"]
                 /\ mnt_flag' = mnt_flag \cup {"MNT_LOCAL"}
                 /\ ret' = "OK"
    /\ UNCHANGED <<nodes, v_data, handles, sbp, fault>>

\* myfs_unmount: free the context mnt_data points to, if any, and reset
\* mnt_data; return 0. Neither the vnodes nor their handles are consulted.
Unmount ==
    /\ fault = "none"
    /\ Record(Call("unmount", 0, ""))
    /\ IF mnt_data # NULL
         THEN /\ ctxs' = Free(ctxs, mnt_data)
              /\ fault' = FreeFault(ctxs, mnt_data)
              /\ mnt_data' = NULL
         ELSE UNCHANGED <<ctxs, fault, mnt_data>>
    /\ ret' = "OK"
    /\ UNCHANGED <<mnt_stat, mnt_flag, nodes, v_data, handles, sbp>>

\* What myfs_statfs writes to *sbp from the superblock it reads.
StatfsOut(sb) == [filled |-> TRUE,
                  f_blocks |-> sb.total_blocks,
                  f_bfree |-> sb.free_blocks,
                  f_bavail |-> sb.free_blocks,
                  f_files |-> 0, f_ffree |-> 0,
                  f_bsize |-> "PAGE_SIZE", f_iosize |-> "PAGE_SIZE",
                  f_namemax |-> "NAME_MAX"]

\* myfs_statfs left unimplemented, like myfs_root and myfs_vget.
StatfsStub ==
    /\ fault = "none"
    /\ Record(Call("statfs", 0, ""))
    /\ ret' = "ENOSYS"
    /\ UNCHANGED <<mnt_data, mnt_stat, mnt_flag, ctxs, nodes, v_data, handles,
                   sbp, fault>>

\* myfs_statfs: read the superblock through mnt_data, with no check that a
\* context is there, and fill *sbp; return 0. With mnt_data NULL the read is
\* a kernel-mode access to page zero, which stops the kernel.
Statfs ==
    /\ fault = "none"
    /\ Record(Call("statfs", 0, ""))
    /\ IF mnt_data = NULL
         THEN /\ fault' = "null_deref"
              /\ UNCHANGED <<sbp, ret>>
         ELSE /\ sbp' = StatfsOut(ctxs[mnt_data].sb)
              /\ ret' = "OK"
              /\ UNCHANGED fault
    /\ UNCHANGED <<mnt_data, mnt_stat, mnt_flag, ctxs, nodes, v_data, handles>>

\* An operation that only logs and returns r.
Stub(op, n, r) ==
    /\ fault = "none"
    /\ Record(Call(op, n, ""))
    /\ ret' = r
    /\ UNCHANGED <<mnt_data, mnt_stat, mnt_flag, ctxs, nodes, v_data, handles,
                   sbp, fault>>

Root == Stub("root", 0, "ENOSYS")

Vget(ino) == Stub("vget", ino, "ENOSYS")

\* ---------------------------------------------------------- vnode operations

Lookup == Stub("lookup", 0, "ENOSYS")

Create == Stub("create", 0, "ENOSYS")

Mknod == Stub("mknod", 0, "ENOSYS")

Access == Stub("access", 0, "ENOSYS")

Getattr == Stub("getattr", 0, "ENOSYS")

Setattr == Stub("setattr", 0, "ENOSYS")

Read == Stub("read", 0, "ENOSYS")

Write == Stub("write", 0, "ENOSYS")

Ioctl == Stub("ioctl", 0, "ENOTTY")

Poll == Stub("poll", 0, "ENOSYS")

Readdir == Stub("readdir", 0, "ENOSYS")

Readlink == Stub("readlink", 0, "ENOSYS")

Symlink == Stub("symlink", 0, "ENOSYS")

Remove == Stub("remove", 0, "ENOSYS")

Rename == Stub("rename", 0, "ENOSYS")

Mkdir == Stub("mkdir", 0, "ENOSYS")

Rmdir == Stub("rmdir", 0, "ENOSYS")

Truncate == Stub("truncate", 0, "ENOSYS")

\* myfs_open returns 0 and keeps no state; on that success the host holds one
\* more handle on the vnode.
Open(v) ==
    /\ fault = "none"
    /\ handles[v] < MaxOpens
    /\ Record(Call("open", v, ""))
    /\ ret' = "OK"
    /\ handles' = [handles EXCEPT ![v] = @ + 1]
    /\ UNCHANGED <<mnt_data, mnt_stat, mnt_flag, ctxs, nodes, v_data, sbp, fault>>

\* myfs_close returns 0 and keeps no state; the host drops the handle it
\* closes, if it held one.
Close(v) ==
    /\ fault = "none"
    /\ Record(Call("close", v, ""))
    /\ ret' = "OK"
    /\ handles' = [handles EXCEPT ![v] = IF @ > 0 THEN @ - 1 ELSE 0]
    /\ UNCHANGED <<mnt_data, mnt_stat, mnt_flag, ctxs, nodes, v_data, sbp, fault>>

\* myfs_reclaim without the reset of vp->v_data after the free.
ReclaimNoClear(v) ==
    /\ fault = "none"
    /\ Record(Call("reclaim", v, ""))
    /\ IF v_data[v] # NULL
         THEN /\ nodes' = Free(nodes, v_data[v])
              /\ fault' = FreeFault(nodes, v_data[v])
         ELSE UNCHANGED <<nodes, fault>>
    /\ ret' = "OK"
    /\ UNCHANGED <<mnt_data, mnt_stat, mnt_flag, ctxs, v_data, handles, sbp>>

\* myfs_reclaim without the free: the pointer is dropped, the node is not.
ReclaimLeak(v) ==
    /\ fault = "none"
    /\ Record(Call("reclaim", v, ""))
    /\ v_data' = [v_data EXCEPT ![v] = NULL]
    /\ ret' = "OK"
    /\ UNCHANGED <<mnt_data, mnt_stat, mnt_flag, ctxs, nodes, handles, sbp, fault>>

\* myfs_reclaim: free the node vp->v_data points to, if any, and reset
\* vp->v_data; return 0.
Reclaim(v) ==
    /\ fault = "none"
    /\ Record(Call("reclaim", v, ""))
    /\ IF v_data[v] # NULL
         THEN /\ nodes' = Free(nodes, v_data[v])
              /\ fault' = FreeFault(nodes, v_data[v])
              /\ v_data' = [v_data EXCEPT ![v] = NULL]
         ELSE UNCHANGED <<nodes, fault, v_data>>
    /\ ret' = "OK"
    /\ UNCHANGED <<mnt_data, mnt_stat, mnt_flag, ctxs, handles, sbp>>

\* myfs_inactive returns 0 and keeps no state.
Inactive(v) ==
    /\ fault = "none"
    /\ Record(Call("inactive", v, ""))
    /\ ret' = "OK"
    /\ UNCHANGED <<mnt_data, mnt_stat, mnt_flag, ctxs, nodes, v_data, handles,
                   sbp, fault>>

\* myfs_fsync that stamps the node's modification time on a blocking sync.
FsyncStamp(v, waitfor) ==
    /\ fault = "none"
    /\ Record(Call("fsync", v, waitfor))
    /\ ret' = "OK"
    /\ nodes' = IF waitfor = "MNT_WAIT" /\ v_data[v] # NULL
                  THEN [nodes EXCEPT ![v_data[v]].mtime = 1 - @]
                  ELSE nodes
    /\ UNCHANGED <<mnt_data, mnt_stat, mnt_flag, ctxs, v_data, handles, sbp, fault>>

\* myfs_fsync: both branches on waitfor only log; return 0.
Fsync(v, waitfor) ==
    /\ fault = "none"
    /\ Record(Call("fsync", v, waitfor))
    /\ IF waitfor = "MNT_WAIT"
         THEN ret' = "OK"
         ELSE ret' = "OK"
    /\ UNCHANGED <<mnt_data, mnt_stat, mnt_flag, ctxs, nodes, v_data, handles,
                   sbp, fault>>

Next ==
    \/ \E mallocOk \in BOOLEAN : Mount(mallocOk)
    \/ Unmount
    \/ Root
    \/ Statfs
    \/ \E ino \in Inos : Vget(ino)
    \/ Lookup
    \/ Create
    \/ Mknod
    \/ \E v \in Vnodes : Open(v)
    \/ \E v \in Vnodes : Close(v)
    \/ Access
    \/ Getattr
    \/ Setattr
    \/ Read
    \/ Write
    \/ Ioctl
    \/ Poll
    \/ \E v \in Vnodes : Reclaim(v)
    \/ Readdir
    \/ Readlink
    \/ Symlink
    \/ Remove
    \/ Rename
    \/ Mkdir
    \/ Rmdir
    \/ \E v \in Vnodes : Inactive(v)
    \/ Truncate
    \/ \E v \in Vnodes, w \in WaitModes : Fsync(v, w)

Spec == Init /\ [][Next]_vars

\* ------------------------------------------------------------------ claims

Mounted == mnt_data # NULL

\* The host's view of a live reference: some vnode has an open handle.
LiveRefs == \E v \in Vnodes : handles[v] > 0

\* The nodes that are live (allocated) for inode number i.
LiveNodes(i) == {n \in Vnodes : nodes[n].state = "allocated" /\ nodes[n].ino = i}

DriverState == <<mnt_data, mnt_stat, mnt_flag, ctxs, nodes, v_data>>

\* C1: an unmount of a mounted filesystem succeeds and releases the context
\* when no vnode has a live reference, and fails with EBUSY, leaving the
\* context in place, when some vnode has one.
C1_UnmountBusyIffReferenced ==
    [][(lastOp'.op = "unmount" /\ Mounted) =>
          IF LiveRefs
            THEN ret' = "EBUSY" /\ mnt_data' = mnt_data /\ ctxs' = ctxs
            ELSE ret' = "OK" /\ mnt_data' = NULL
                 /\ ctxs'[mnt_data].state = "freed"]_vars

C3_RootResolvable ==
    (lastOp.op \in {"root", "lookup"} /\ Mounted) => ret = "OK"

\* C4: whenever a mount context exists, it is allocated, its superblock's
\* free_blocks is at most total_blocks and its magic is MYFS_MAGIC.
C4_SuperblockInvariant ==
    Mounted =>
        /\ ctxs[mnt_data].state = "allocated"
        /\ ctxs[mnt_data].sb.free_blocks <= ctxs[mnt_data].sb.total_blocks
        /\ ctxs[mnt_data].sb.magic = MYFS_MAGIC

\* C4 witness: a mounted filesystem after one of the driver's operations.
C4_Witness ==
    /\ Mounted
    /\ fault = "none"
    /\ lastOp.op \in {"create", "write", "truncate", "remove", "mkdir",
                      "rmdir", "rename", "statfs", "fsync"}

\* C5: statfs on a mounted filesystem returns 0 with total, free and
\* available blocks as the superblock has them (all zero as mount leaves the
\* superblock), and changes neither the superblock nor the mount context.
C5_StatfsReflectsSuperblock ==
    [][(lastOp'.op = "statfs" /\ Mounted) =>
          /\ ret' = "OK"
          /\ sbp'.filled
          /\ sbp'.f_blocks = ctxs[mnt_data].sb.total_blocks
          /\ sbp'.f_bfree = ctxs[mnt_data].sb.free_blocks
          /\ sbp'.f_bavail = ctxs[mnt_data].sb.free_blocks
          /\ (ctxs[mnt_data].sb = [magic |-> MYFS_MAGIC, total_blocks |-> 0,
                                    free_blocks |-> 0]
                => sbp'.f_blocks = 0 /\ sbp'.f_bfree = 0 /\ sbp'.f_bavail = 0)
          /\ UNCHANGED DriverState
          /\ fault' = "none"]_vars

\* C5 witness: statfs has just run on a mounted filesystem.
C5_Witness ==
    /\ lastOp.op = "statfs"
    /\ Mounted
    /\ sbp.filled
    /\ ret = "OK"

\* C6: a mount that returns an error leaves mnt_data, the allocations and the
\* mount point's statistics and flags as they were; mnt_data comes to point
\* to a context only by a mount that returns 0, and that context is allocated.
C6_MountAtomicOnFailure ==
    /\ [][(lastOp'.op = "mount" /\ ret' # "OK") =>
             /\ mnt_data' = mnt_data
             /\ ctxs' = ctxs
             /\ mnt_stat' = mnt_stat
             /\ mnt_flag' = mnt_flag]_vars
    /\ [][(mnt_data' # NULL /\ mnt_data' # mnt_data) =>
             /\ lastOp'.op = "mount"
             /\ ret' = "OK"
             /\ ctxs'[mnt_data'].state = "allocated"]_vars

\* C6 witness: a mount has just failed on an unmounted mount point.
C6_Witness ==
    /\ lastOp.op = "mount"
    /\ ret = "ENOMEM"
    /\ ~Mounted
    /\ \A a \in CtxAddrs : ctxs[a].state # "allocated"

\* C7: close, reclaim and inactive return 0; after a reclaim the vnode has no
\* node data; and no allocated node is left that no vnode points to.
C7_CleanupNeverFails ==
    /\ lastOp.op \in {"close", "reclaim", "inactive"} => ret = "OK"
    /\ lastOp.op = "reclaim" => v_data[lastOp.n] = NULL
    /\ \A n \in Vnodes :
          nodes[n].state = "allocated" => \E v \in Vnodes : v_data[v] = n

\* C7 witness: a reclaim of a vnode whose node data an earlier reclaim had
\* already released.
C7_Witness ==
    /\ lastOp.op = "reclaim"
    /\ repeated
    /\ nodes[lastOp.n].state = "freed"
    /\ ret = "OK"

\* C8: fsync returns 0 in either wait mode and leaves the driver state as it
\* was, so a second fsync ends in the state the first one left.
C8_FsyncIdempotent ==
    [][(lastOp'.op = "fsync" /\ lastOp'.arg \in WaitModes) =>
          /\ ret' = "OK"
          /\ UNCHANGED DriverState
          /\ UNCHANGED <<handles, sbp, fault>>]_vars

\* C8 witness: two consecutive blocking fsync calls on one vnode with node
\* data.
C8_Witness ==
    /\ lastOp.op = "fsync"
    /\ lastOp.arg = "MNT_WAIT"
    /\ repeated
    /\ v_data[lastOp.n] # NULL
    /\ ret = "OK"

\* C9: no node is freed more than once: reclaim leaves the vnode without node
\* data, no vnode points to a node that is not allocated, and no free() is
\* made on a freed node.
C9_ReclaimFreesOnce ==
    /\ fault # "double_free"
    /\ \A n \in Vnodes : nodes[n].frees <= 1
    /\ lastOp.op = "reclaim" => v_data[lastOp.n] = NULL
    /\ \A v \in Vnodes : v_data[v] # NULL => nodes[v_data[v]].state = "allocated"

\* C9 witness: a second reclaim of a vnode whose node was freed once.
C9_Witness ==
    /\ lastOp = Call("reclaim", lastOp.n, "")
    /\ repeated
    /\ nodes[lastOp.n].frees = 1
    /\ fault = "none"

\* C10: over any sequence of mount, statfs and unmount calls no absent
\* context is dereferenced, every allocated context is the one mnt_data
\* points to, and no context is freed twice.
C10_ContextLifecycle ==
    /\ fault = "none"
    /\ \A a \in CtxAddrs :
          /\ ctxs[a].state = "allocated" => mnt_data = a
          /\ ctxs[a].frees <= 1
    /\ Mounted => ctxs[mnt_data].state = "allocated"

====
